---- MODULE Spec2Model ----
(***************************************************************************)
(* Model of the ue14500 toolkit: the 12-bit word model (data.rs), the      *)
(* binary codec (formats/binary.rs) and the assembly parser                *)
(* (formats/assembly/parser.rs).                                           *)
(***************************************************************************)
EXTENDS Integers, Sequences, FiniteSets, TLC

VARIABLES
    op,      \* name of the last operation that ran
    arg,     \* the raw input handed to that operation
    bits,    \* the u32 of the last word conversion (a 32-bit vector)
    word,    \* the Word of the last word conversion
    asm,     \* the assembly text last handed to a parser (sequence of chars)
    parsed,  \* the result of that parser
    nodes,   \* the Nodes last handed to serialize
    bytes,   \* the byte stream last written by serialize / read by deserialize
    listed   \* the Nodes last returned by deserialize

vars == <<op, arg, bits, word, asm, parsed, nodes, bytes, listed>>

(***************************************************************************)
(* Bounds of the model.                                                    *)
(***************************************************************************)
MaxNodes == 3      \* longest sampled node sequence handed to serialize
MaxBytes == 3      \* longest sampled byte stream handed to deserialize
MaxLines == 3      \* most lines of a sampled assembly program

(***************************************************************************)
(* u32 arithmetic.  A u32 is a vector of 32 bits, bit 0 the least          *)
(* significant, so that the high bits of a decoded integer are kept.       *)
(***************************************************************************)
U32Bits == 32

U32FromNat(n) ==
    [i \in 0..(U32Bits - 1) |-> IF i >= 31 THEN 0 ELSE (n \div (2 ^ i)) % 2]

RECURSIVE U32Sum(_, _)
U32Sum(b, i) ==
    IF i < 0 THEN 0 ELSE b[i] * (2 ^ i) + U32Sum(b, i - 1)

\* numeric value of a u32 whose top bit is clear
U32ToNat(b) == U32Sum(b, 30)

BitAnd(a, b) == [i \in 0..(U32Bits - 1) |-> a[i] * b[i]]

BitOr(a, b) ==
    [i \in 0..(U32Bits - 1) |-> IF a[i] = 1 \/ b[i] = 1 THEN 1 ELSE 0]

Shr(a, n) ==
    [i \in 0..(U32Bits - 1) |-> IF i + n <= U32Bits - 1 THEN a[i + n] ELSE 0]

Shl(a, n) ==
    [i \in 0..(U32Bits - 1) |-> IF i >= n THEN a[i - n] ELSE 0]

Min(S) == CHOOSE x \in S : \A y \in S : x <= y

(***************************************************************************)
(* Instructions (data.rs 61-245).                                          *)
(***************************************************************************)
INST_MASK == 3840      \* 0b1111_000000_00
INST_POS == 8

InstKind ==
    <<"Nop0", "Ld", "Add", "Sub", "One", "Nand", "Or", "Xor",
      "Sto", "StoC", "Ien", "Oen", "Ioc", "Rtn", "Skz", "NopF">>

INST_TABLE ==
    << [val |-> 0,  name |-> <<"n","o","p","0">>, kind |-> "Nop0"],
       [val |-> 1,  name |-> <<"l","d">>,         kind |-> "Ld"],
       [val |-> 2,  name |-> <<"a","d","d">>,     kind |-> "Add"],
       [val |-> 3,  name |-> <<"s","u","b">>,     kind |-> "Sub"],
       [val |-> 4,  name |-> <<"o","n","e">>,     kind |-> "One"],
       [val |-> 5,  name |-> <<"n","a","n","d">>, kind |-> "Nand"],
       [val |-> 6,  name |-> <<"o","r">>,         kind |-> "Or"],
       [val |-> 7,  name |-> <<"x","o","r">>,     kind |-> "Xor"],
       [val |-> 8,  name |-> <<"s","t","o">>,     kind |-> "Sto"],
       [val |-> 9,  name |-> <<"s","t","o","c">>, kind |-> "StoC"],
       [val |-> 10, name |-> <<"i","e","n">>,     kind |-> "Ien"],
       [val |-> 11, name |-> <<"o","e","n">>,     kind |-> "Oen"],
       [val |-> 12, name |-> <<"i","o","c">>,     kind |-> "Ioc"],
       [val |-> 13, name |-> <<"r","t","n">>,     kind |-> "Rtn"],
       [val |-> 14, name |-> <<"s","k","z">>,     kind |-> "Skz"],
       [val |-> 15, name |-> <<"n","o","p","f">>, kind |-> "NopF"] >>

\* `kind as usize`: the position of the variant in the enum declaration
InstKindIndex(kind) == CHOOSE i \in 1..Len(InstKind) : InstKind[i] = kind

InstKindName(kind) == INST_TABLE[InstKindIndex(kind)].name

InstKindVal(kind) == INST_TABLE[InstKindIndex(kind)].val

\* the value of a conversion that ran into unreachable!()
Panic == [panic |-> "unreachable"]

\* Inst(kind)
InstFromKind(kind) == [kind |-> kind]

InstVal(inst) == InstKindVal(inst.kind)

InstName(inst) == InstKindName(inst.kind)

\* InstFromU32 without the mask: the high bits of the integer reach the lookup
InstFromU32_NoMask(w) ==
    LET val == U32ToNat(Shr(w, INST_POS))
        hit == {i \in 1..Len(INST_TABLE) : INST_TABLE[i].val = val}
    IN  IF hit = {} THEN Panic ELSE InstFromKind(INST_TABLE[Min(hit)].kind)

InstFromU32(w) ==
    LET val == U32ToNat(Shr(BitAnd(w, U32FromNat(INST_MASK)), INST_POS))
        hit == {i \in 1..Len(INST_TABLE) : INST_TABLE[i].val = val}
    IN  IF hit = {} THEN Panic ELSE InstFromKind(INST_TABLE[Min(hit)].kind)

(***************************************************************************)
(* Addresses (data.rs 247-396).                                            *)
(***************************************************************************)
ADDR_MASK == 252       \* 0b0000_111111_00
ADDR_POS == 2

\* ADDR_TABLE with the parallel read range one value too wide
ADDR_TABLE_WideParallel ==
    << [lo |-> 0,  hi |-> 39, name |-> "general",            kind |-> "General"],
       [lo |-> 40, hi |-> 48, name |-> "parallel read",      kind |-> "ParallelRead"],
       [lo |-> 48, hi |-> 55, name |-> "external input",     kind |-> "ExternalInput"],
       [lo |-> 56, hi |-> 56, name |-> "qrr",                kind |-> "QRR"],
       [lo |-> 57, hi |-> 57, name |-> "rr",                 kind |-> "RR"],
       [lo |-> 58, hi |-> 59, name |-> "high input",         kind |-> "HighInput"],
       [lo |-> 60, hi |-> 63, name |-> "low input / high z", kind |-> "LowInput"] >>

ADDR_TABLE ==
    << [lo |-> 0,  hi |-> 39, name |-> "general",            kind |-> "General"],
       [lo |-> 40, hi |-> 47, name |-> "parallel read",      kind |-> "ParallelRead"],
       [lo |-> 48, hi |-> 55, name |-> "external input",     kind |-> "ExternalInput"],
       [lo |-> 56, hi |-> 56, name |-> "qrr",                kind |-> "QRR"],
       [lo |-> 57, hi |-> 57, name |-> "rr",                 kind |-> "RR"],
       [lo |-> 58, hi |-> 59, name |-> "high input",         kind |-> "HighInput"],
       [lo |-> 60, hi |-> 63, name |-> "low input / high z", kind |-> "LowInput"] >>

AddrKind ==
    <<"General", "ParallelRead", "ExternalInput", "QRR", "RR", "HighInput",
      "LowInput">>

\* the table rows whose range contains the value, in table order
AddrRows(addr_bits) ==
    {i \in 1..Len(ADDR_TABLE) :
        ADDR_TABLE[i].lo <= addr_bits /\ addr_bits <= ADDR_TABLE[i].hi}

\* Addr(kind, value); an empty find_map result falls back to General
AddrFromU32(w) ==
    LET addr_bits == U32ToNat(Shr(BitAnd(w, U32FromNat(ADDR_MASK)), ADDR_POS))
        hit == AddrRows(addr_bits)
    IN  [kind |-> IF hit # {} THEN ADDR_TABLE[Min(hit)].kind ELSE "General",
         val |-> addr_bits]

AddrVal(addr) == addr.val

(***************************************************************************)
(* Controls (data.rs 398-483).                                             *)
(***************************************************************************)
CTRL_MASK == 3         \* 0b0000_000000_11

CTRL_TABLE ==
    << [val |-> 0, name |-> "null",               kind |-> "Null"],
       [val |-> 1, name |-> "copy and shift out", kind |-> "CopyShift"],
       [val |-> 2, name |-> "undefined",          kind |-> "Undefined"],
       [val |-> 3, name |-> "stop tape",          kind |-> "StopTape"] >>

CtrlKind == <<"Null", "CopyShift", "Undefined", "StopTape">>

CtrlKindIndex(kind) == CHOOSE i \in 1..Len(CtrlKind) : CtrlKind[i] = kind

CtrlKindVal(kind) == CTRL_TABLE[CtrlKindIndex(kind)].val

CtrlFromKind(kind) == [kind |-> kind]

CtrlVal(ctrl) == CtrlKindVal(ctrl.kind)

CtrlFromU32(w) ==
    LET val == U32ToNat(BitAnd(w, U32FromNat(CTRL_MASK)))
        hit == {i \in 1..Len(CTRL_TABLE) : CTRL_TABLE[i].val = val}
    IN  IF hit = {} THEN Panic ELSE CtrlFromKind(CTRL_TABLE[Min(hit)].kind)

(***************************************************************************)
(* Words (data.rs 8-59).                                                   *)
(***************************************************************************)
Word(inst, addr, ctrl) == [inst |-> inst, addr |-> addr, ctrl |-> ctrl]

\* impl From<u32> for Word; a panic of a field conversion unwinds the call
WordFromU32(b) ==
    LET inst == InstFromU32(b)
        addr == AddrFromU32(b)
        ctrl == CtrlFromU32(b)
    IN  IF inst = Panic \/ ctrl = Panic THEN Panic ELSE Word(inst, addr, ctrl)

\* U32FromWord with the address field left unshifted
U32FromWord_AddrUnshifted(w) ==
    BitOr(BitOr(Shl(U32FromNat(InstVal(w.inst)), INST_POS),
                U32FromNat(AddrVal(w.addr))),
          U32FromNat(CtrlVal(w.ctrl)))

\* impl From<Word> for u32
U32FromWord(w) ==
    BitOr(BitOr(Shl(U32FromNat(InstVal(w.inst)), INST_POS),
                Shl(U32FromNat(AddrVal(w.addr)), ADDR_POS)),
          U32FromNat(CtrlVal(w.ctrl)))

(***************************************************************************)
(* Nodes.  Node::Word(inst, addr, ctrl) and Node::Comment(text) are used   *)
(* by parser.rs and uecli.rs; the conversions between Word and Node are    *)
(* the ones serialize and deserialize call.                                *)
(***************************************************************************)
NodeWord(inst, addr, ctrl) ==
    [tag |-> "Word", inst |-> inst, addr |-> addr, ctrl |-> ctrl]

NodeComment(text) == [tag |-> "Comment", text |-> text]

\* Word::from(bits).into()
NodeFromWord(w) == NodeWord(w.inst, w.addr, w.ctrl)

\* TryInto::<Word>::try_into(node)
TryIntoWord(node) ==
    IF node.tag = "Word"
    THEN [ok |-> TRUE, word |-> Word(node.inst, node.addr, node.ctrl)]
    ELSE [ok |-> FALSE]

(***************************************************************************)
(* Bit writer used by serialize (binary.rs 41-52).  The writer is the      *)
(* sequence of bits written so far, the first written first; the bytes it  *)
(* hands to the output are its complete groups of eight bits, the first    *)
(* bit of a group being the most significant.                              *)
(***************************************************************************)
ByteBits == 8

BitWriterNew == <<>>

\* write the low nbits bits of value, the most significant of them first
WriteBits(bw, value, nbits) ==
    bw \o [k \in 1..nbits |-> (value \div (2 ^ (nbits - k))) % 2]

\* zero bits up to the next byte boundary
PadToByte(bw) ==
    bw \o [k \in 1..((ByteBits - (Len(bw) % ByteBits)) % ByteBits) |-> 0]

\* the k-th byte the writer emitted (k from 1)
WrittenByte(bw, k) ==
    bw[8 * k - 7] * 128 + bw[8 * k - 6] * 64 + bw[8 * k - 5] * 32
    + bw[8 * k - 4] * 16 + bw[8 * k - 3] * 8 + bw[8 * k - 2] * 4
    + bw[8 * k - 1] * 2 + bw[8 * k]

\* the bytes the writer emitted: a started byte is not emitted until it is full
WrittenBytes(bw) == [k \in 1..(Len(bw) \div ByteBits) |-> WrittenByte(bw, k)]

INST_BITS == 4
ADDR_BITS == 6
CTRL_BITS == 2

\* SerializeNode writing the address before the instruction
SerializeNode_AddrFirst(bw, node) ==
    LET w == TryIntoWord(node)
    IN  IF w.ok
        THEN WriteBits(WriteBits(WriteBits(bw, AddrVal(w.word.addr), ADDR_BITS),
                                 InstVal(w.word.inst), INST_BITS),
                       CtrlVal(w.word.ctrl), CTRL_BITS)
        ELSE bw

\* the body of the for loop of serialize
SerializeNode(bw, node) ==
    LET w == TryIntoWord(node)
    IN  IF w.ok
        THEN WriteBits(WriteBits(WriteBits(bw, InstVal(w.word.inst), INST_BITS),
                                 AddrVal(w.word.addr), ADDR_BITS),
                       CtrlVal(w.word.ctrl), CTRL_BITS)
        ELSE bw

\* SerializeLoop in which a comment node pads the stream to a byte boundary
RECURSIVE SerializeLoop_CommentPads(_, _)
SerializeLoop_CommentPads(bw, ns) ==
    IF ns = <<>> THEN bw
    ELSE SerializeLoop_CommentPads(
             IF TryIntoWord(Head(ns)).ok THEN SerializeNode(bw, Head(ns))
             ELSE PadToByte(bw),
             Tail(ns))

RECURSIVE SerializeLoop(_, _)
SerializeLoop(bw, ns) ==
    IF ns = <<>> THEN bw
    ELSE SerializeLoop(SerializeNode(bw, Head(ns)), Tail(ns))

\* serialize without the final pad_to_byte
serialize_NoPad(ns) == WrittenBytes(SerializeLoop(BitWriterNew, ns))

\* serialize: the bytes the writer received
serialize(ns) == WrittenBytes(PadToByte(SerializeLoop(BitWriterNew, ns)))

(***************************************************************************)
(* Bit reader used by deserialize (binary.rs 17-25).                       *)
(***************************************************************************)
WORD_BITS == 12

BitReaderNew(input) == [input |-> input, pos |-> 0]

\* the i-th byte of the input, 0 past its end
InputByte(input, i) == IF i <= Len(input) THEN input[i] ELSE 0

\* the n bits (n <= 17) that start at bit position pos, as a number whose
\* most significant bit is the first of them
BitsAt(input, pos, n) ==
    ((InputByte(input, (pos \div ByteBits) + 1) * 65536
      + InputByte(input, (pos \div ByteBits) + 2) * 256
      + InputByte(input, (pos \div ByteBits) + 3))
     \div (2 ^ (3 * ByteBits - (pos % ByteBits) - n))) % (2 ^ n)

\* read_bits(n): the n bits read MSB first, or Err when the input ends
\* before the n-th of them, the reader then being at the end of the input
ReadBits(br, n) ==
    IF br.pos + n <= ByteBits * Len(br.input)
    THEN [ok |-> TRUE, bits |-> BitsAt(br.input, br.pos, n),
          br |-> [br EXCEPT !.pos = br.pos + n]]
    ELSE [ok |-> FALSE, bits |-> 0,
          br |-> [br EXCEPT !.pos = ByteBits * Len(br.input)]]

\* DeserializeLoop that decodes a final partial group as a word
RECURSIVE DeserializeLoop_KeepPartial(_, _)
DeserializeLoop_KeepPartial(br, ns) ==
    LET r == ReadBits(br, WORD_BITS)
    IN  IF ~r.ok
        THEN IF r.br.pos > br.pos
             THEN Append(ns, NodeFromWord(WordFromU32(U32FromNat(r.bits))))
             ELSE ns
        ELSE DeserializeLoop_KeepPartial(r.br,
                 Append(ns, NodeFromWord(WordFromU32(U32FromNat(r.bits)))))

RECURSIVE DeserializeLoop(_, _)
DeserializeLoop(br, ns) ==
    LET r == ReadBits(br, WORD_BITS)
    IN  IF ~r.ok THEN ns
        ELSE DeserializeLoop(r.br,
                             Append(ns, NodeFromWord(WordFromU32(U32FromNat(r.bits)))))

\* deserialize: always Ok(Nodes(nodes))
deserialize(input) == [ok |-> TRUE, nodes |-> DeserializeLoop(BitReaderNew(input), <<>>)]

(***************************************************************************)
(* Text.  A text is a sequence of one-character strings; a position is the *)
(* offset of the next character to read (0 at the start).                  *)
(***************************************************************************)
LowerLetters ==
    <<"a","b","c","d","e","f","g","h","i","j","k","l","m",
      "n","o","p","q","r","s","t","u","v","w","x","y","z">>

UpperLetters ==
    <<"A","B","C","D","E","F","G","H","I","J","K","L","M",
      "N","O","P","Q","R","S","T","U","V","W","X","Y","Z">>

IndexIn(c, letters) == {i \in 1..Len(letters) : letters[i] = c}

Range(seq) == {seq[k] : k \in 1..Len(seq)}

UpperOf ==
    [c \in Range(LowerLetters) |-> UpperLetters[Min(IndexIn(c, LowerLetters))]]

LowerOf ==
    [c \in Range(UpperLetters) |-> LowerLetters[Min(IndexIn(c, UpperLetters))]]

\* char-wise str::to_uppercase / str::to_lowercase on ASCII text
UpperChar(c) == IF c \in DOMAIN UpperOf THEN UpperOf[c] ELSE c

LowerChar(c) == IF c \in DOMAIN LowerOf THEN LowerOf[c] ELSE c

to_uppercase(str) == [k \in 1..Len(str) |-> UpperChar(str[k])]

to_lowercase(str) == [k \in 1..Len(str) |-> LowerChar(str[k])]

\* A char outside ASCII is written as the string "U+" followed by the four hex
\* digits of its code point, so that a text does not depend on how the bytes
\* of this file are decoded: "U+00E9" is the one char e acute.
\* char::is_whitespace: the 25 chars with the White_Space property, U+0009 to
\* U+000D (tab, line feed, vertical tab, form feed, carriage return), U+0020,
\* U+0085, U+00A0, U+1680, U+2000 to U+200A, U+2028, U+2029, U+202F, U+205F
\* and U+3000.
Whitespace ==
    {"\t", "\n", "", "\f", "\r", " ",
     "U+0085", "U+00A0", "U+1680",
     "U+2000", "U+2001", "U+2002", "U+2003", "U+2004", "U+2005", "U+2006",
     "U+2007", "U+2008", "U+2009", "U+200A",
     "U+2028", "U+2029", "U+202F", "U+205F", "U+3000"}

BinDigits == <<"0","1">>
OctDigits == <<"0","1","2","3","4","5","6","7">>
HexDigits == <<"0","1","2","3","4","5","6","7","8","9","a","b","c","d","e","f">>

\* chars accepted by hex_digit
HexDigitChars == Range(HexDigits) \cup {UpperChar(c) : c \in Range(HexDigits)}

\* str::trim_end
RECURSIVE trim_end(_)
trim_end(str) ==
    IF str # <<>> /\ str[Len(str)] \in Whitespace
    THEN trim_end(SubSeq(str, 1, Len(str) - 1)) ELSE str

\* the value of a digit char (char::to_digit)
DigitValue(c) == Min(IndexIn(LowerChar(c), HexDigits)) - 1

HALF == 65536      \* 2^16: a u32 is held as two 16-bit halves while it is summed

\* the checked multiply-and-add of u32::from_str_radix, digit by digit, the
\* value so far being hi * 2^16 + lo; an overflow of u32 gives Err
RECURSIVE FromStrRadixAcc(_, _, _, _)
FromStrRadixAcc(digits, radix, hi, lo) ==
    IF digits = <<>>
    THEN [ok |-> TRUE, val |-> BitOr(Shl(U32FromNat(hi), 16), U32FromNat(lo))]
    ELSE IF hi * radix + ((lo * radix + DigitValue(Head(digits))) \div HALF) >= HALF
    THEN [ok |-> FALSE]
    ELSE FromStrRadixAcc(Tail(digits), radix,
             hi * radix + ((lo * radix + DigitValue(Head(digits))) \div HALF),
             (lo * radix + DigitValue(Head(digits))) % HALF)

\* u32::from_str_radix on a run of digits of that radix: Ok(u32) or Err
from_str_radix(digits, radix) == FromStrRadixAcc(digits, radix, 0, 0)

\* Result::unwrap at offset pos: the value, or a panic that ends the parse
Unwrap(pos, r) == IF r.ok THEN [ok |-> TRUE, pos |-> pos, val |-> r.val]
                  ELSE [ok |-> FALSE, pos |-> pos, err |-> "Panicked"]

\* a parse that was ended by a panic
Panicked(r) == (~r.ok) /\ r.err = "Panicked"

(***************************************************************************)
(* Parser combinators as parser.rs uses them.  A parser applied at a       *)
(* position returns Ok(position after the match, value) or Err(position,   *)
(* message); "Unexpected" is an error that carries no SyntaxError.         *)
(***************************************************************************)
Ok(pos, val) == [ok |-> TRUE, pos |-> pos, val |-> val]

Err(pos, msg) == [ok |-> FALSE, pos |-> pos, err |-> msg]

\* is(literal)
Is(txt, pos, lit) ==
    IF pos + Len(lit) <= Len(txt) /\ SubSeq(txt, pos + 1, pos + Len(lit)) = lit
    THEN Ok(pos + Len(lit), lit)
    ELSE Err(pos, "Unexpected")

\* eoi()
Eoi(txt, pos) ==
    IF pos >= Len(txt) THEN Ok(pos, <<>>) ELSE Err(pos, "Unexpected")

\* number of consecutive chars of the class from pos on, at most max
RECURSIVE RunLength(_, _, _, _)
RunLength(txt, pos, class, max) ==
    IF max = 0 \/ pos >= Len(txt) \/ txt[pos + 1] \notin class THEN 0
    ELSE 1 + RunLength(txt, pos + 1, class, max - 1)

\* the result of take given the length n of the matching run
TakeRun(txt, pos, lo, n) ==
    IF n >= lo THEN Ok(pos + n, SubSeq(txt, pos + 1, pos + n))
    ELSE Err(pos + n, "Unexpected")

\* take(lo..hi, is(class)): between lo and hi - 1 chars of the class
Take(txt, pos, lo, hi, class) ==
    TakeRun(txt, pos, lo, RunLength(txt, pos, class, hi - 1))

\* space(lo..)
Space(txt, pos, lo) == Take(txt, pos, lo, Len(txt) + 2, Whitespace)

\* the position after the whitespace trim() skips
SkipSpace(txt, pos) == pos + RunLength(txt, pos, Whitespace, Len(txt))

\* find_any / take_any of two results: the first if it matched, else the second
OrElse(first, second) ==
    IF first.ok \/ Panicked(first) THEN first ELSE second

\* numeral lexers (parser.rs 77-102)
BIN_MAX == 32
OCT_MAX == 11
HEX_MAX == 8

\* map_result(from_str_radix) and map_error(ExpectedAddr) on the digit run
NumeralValue(d, radix) ==
    IF d.ok THEN Unwrap(d.pos, from_str_radix(d.val, radix))
    ELSE Err(d.pos, "ExpectedAddr")

\* the digits that follow a matched prefix p
NumeralDigits(txt, p, max, class, radix) ==
    IF p.ok THEN NumeralValue(Take(txt, p.pos, 1, max, class), radix)
    ELSE Err(p.pos, "ExpectedAddr")

Numeral(txt, pos, prefix, max, class, radix) ==
    NumeralDigits(txt, Is(txt, pos, prefix), max, class, radix)

\* bin() taking runs of up to 33 binary digits
bin_LongerRun(txt, pos) ==
    Numeral(txt, pos, <<"0","b">>, BIN_MAX + 2, Range(BinDigits), 2)

bin(txt, pos) == Numeral(txt, pos, <<"0","b">>, BIN_MAX, Range(BinDigits), 2)

oct(txt, pos) == Numeral(txt, pos, <<"0","o">>, OCT_MAX, Range(OctDigits), 8)

hex(txt, pos) == Numeral(txt, pos, <<"0","h">>, HEX_MAX, HexDigitChars, 16)

\* find_any((bin(), oct(), hex())): the first alternative that matches
AnyNumeral(txt, pos) ==
    OrElse(bin(txt, pos), OrElse(oct(txt, pos), hex(txt, pos)))

\* newline(): end of input, "\n" or "\r\n"
newline(txt, pos) ==
    OrElse(Eoi(txt, pos),
           OrElse(Is(txt, pos, <<"\n">>), Is(txt, pos, <<"\r", "\n">>)))

\* take_until(newline(), is(any)): the position where newline() first matches
RECURSIVE UntilNewline(_, _)
UntilNewline(txt, pos) ==
    IF newline(txt, pos).ok THEN pos ELSE UntilNewline(txt, pos + 1)

\* CommentText that keeps the trailing whitespace of the text
CommentText_Untrimmed(txt, start, stop) ==
    Ok(newline(txt, stop).pos, NodeComment(SubSeq(txt, start + 1, stop)))

\* the comment whose text runs from start to stop, and its line terminator
CommentText(txt, start, stop) ==
    Ok(newline(txt, stop).pos, NodeComment(trim_end(SubSeq(txt, start + 1, stop))))

\* the rest of comment() after is(';') gave semi
CommentBody(txt, semi) ==
    IF ~semi.ok THEN Err(semi.pos, "ExpectedComment")
    ELSE CommentText(txt, semi.pos, UntilNewline(txt, semi.pos))

\* comment() (parser.rs 108-115)
comment(txt, pos) == CommentBody(txt, Is(txt, pos, <<";">>))

\* the alternatives of inst() in the order they are tried (parser.rs 157-174)
InstItems ==
    << [kind |-> "Nop0", name |-> <<"N","o","p","0">>],
       [kind |-> "Ld",   name |-> <<"L","d">>],
       [kind |-> "Add",  name |-> <<"A","d","d">>],
       [kind |-> "Sub",  name |-> <<"S","u","b">>],
       [kind |-> "One",  name |-> <<"O","n","e">>],
       [kind |-> "Nand", name |-> <<"N","a","n","d">>],
       [kind |-> "Or",   name |-> <<"O","r">>],
       [kind |-> "Xor",  name |-> <<"X","o","r">>],
       [kind |-> "StoC", name |-> <<"S","t","o","C">>],
       [kind |-> "Sto",  name |-> <<"S","t","o">>],
       [kind |-> "Ien",  name |-> <<"I","e","n">>],
       [kind |-> "Oen",  name |-> <<"O","e","n">>],
       [kind |-> "Ioc",  name |-> <<"I","o","c">>],
       [kind |-> "Rtn",  name |-> <<"R","t","n">>],
       [kind |-> "Skz",  name |-> <<"S","k","z">>],
       [kind |-> "NopF", name |-> <<"N","o","p","F">>] >>

\* map_result(|_| inst) and map_error(ExpectedInst(inst)) on a literal match
InstResult(hit, kind) ==
    IF hit.ok THEN Ok(hit.pos, InstFromKind(kind))
    ELSE Err(hit.pos, "ExpectedInst")

\* inst_item without the uppercase alternative
inst_item_NoUpper(txt, pos, kind, name) ==
    InstResult(OrElse(Is(txt, pos, name), Is(txt, pos, to_lowercase(name))), kind)

\* inst_item(inst, name) (parser.rs 179-189)
inst_item(txt, pos, kind, name) ==
    InstResult(OrElse(Is(txt, pos, name),
                      OrElse(Is(txt, pos, to_lowercase(name)),
                             Is(txt, pos, to_uppercase(name)))),
               kind)

RECURSIVE InstFrom(_, _, _)

\* the i-th item gave r: take it if it matched or was the last one
InstNext(txt, pos, i, r) ==
    IF r.ok \/ i = Len(InstItems) THEN r ELSE InstFrom(txt, pos, i + 1)

\* InstFrom that tries Sto (the 10th item) before StoC (the 9th)
InstFrom_StoFirst(txt, pos, i) ==
    InstNext(txt, pos, i,
             inst_item(txt, pos,
                       InstItems[IF i = 9 THEN 10 ELSE IF i = 10 THEN 9 ELSE i].kind,
                       InstItems[IF i = 9 THEN 10 ELSE IF i = 10 THEN 9 ELSE i].name))

\* find_any over the items from the i-th on: the first that matches, or the
\* error of the last one
InstFrom(txt, pos, i) ==
    InstNext(txt, pos, i, inst_item(txt, pos, InstItems[i].kind, InstItems[i].name))

\* inst() returning the last alternative that matches instead of the first
inst_LastMatch(txt, pos) ==
    LET hit == {i \in 1..Len(InstItems) :
                    inst_item(txt, pos, InstItems[i].kind, InstItems[i].name).ok}
        pick == IF hit = {} THEN Len(InstItems)
                ELSE CHOOSE i \in hit : \A j \in hit : j <= i
    IN  inst_item(txt, pos, InstItems[pick].kind, InstItems[pick].name)

\* inst() (parser.rs 155-177)
inst(txt, pos) == InstFrom(txt, pos, 1)

\* AddrResult that takes a numeral over 63 as no address
AddrResult_RangeChecked(n) ==
    IF n.ok /\ U32ToNat(n.val) <= 63 THEN Ok(n.pos, AddrFromU32(Shl(n.val, ADDR_POS)))
    ELSE IF Panicked(n) THEN n
    ELSE Err(n.pos, "ExpectedAddr")

\* map_result(|addr| Addr::from(addr << ADDR_POS)), map_error(ExpectedAddr)
AddrResult(n) ==
    IF n.ok THEN Ok(n.pos, AddrFromU32(Shl(n.val, ADDR_POS)))
    ELSE IF Panicked(n) THEN n
    ELSE Err(n.pos, "ExpectedAddr")

\* addr() (parser.rs 211-218)
addr(txt, pos) == AddrResult(AnyNumeral(txt, pos))

\* CtrlResult that leaves the error of the numeral lexers as it is
CtrlResult_NoMapError(n) ==
    IF n.ok THEN Ok(n.pos, CtrlFromU32(n.val)) ELSE n

\* map_result(Ctrl::from), map_error(ExpectedCtrl)
CtrlResult(n) ==
    IF n.ok THEN Ok(n.pos, CtrlFromU32(n.val))
    ELSE IF Panicked(n) THEN n
    ELSE Err(n.pos, "ExpectedCtrl")

\* ctrl() (parser.rs 235-242)
ctrl(txt, pos) == CtrlResult(AnyNumeral(txt, pos))

\* word() (parser.rs 133-141): find_all((inst(), space(1..), addr(),
\* space(1..), ctrl(), newline())), one operator per element, each given the
\* results of the elements before it
WordEnd(i, a, c, nl) ==
    IF nl.ok THEN Ok(nl.pos, NodeWord(i.val, a.val, c.val)) ELSE nl

WordAfterCtrl(txt, i, a, c) ==
    IF c.ok THEN WordEnd(i, a, c, newline(txt, c.pos)) ELSE c

WordAfterSpace2(txt, i, a, s2) ==
    IF s2.ok THEN WordAfterCtrl(txt, i, a, ctrl(txt, s2.pos)) ELSE s2

WordAfterAddr(txt, i, a) ==
    IF a.ok THEN WordAfterSpace2(txt, i, a, Space(txt, a.pos, 1)) ELSE a

WordAfterSpace1(txt, i, s1) ==
    IF s1.ok THEN WordAfterAddr(txt, i, addr(txt, s1.pos)) ELSE s1

WordAfterInst(txt, i) ==
    IF i.ok THEN WordAfterSpace1(txt, i, Space(txt, i.pos, 1)) ELSE i

ParseWord(txt, pos) == WordAfterInst(txt, inst(txt, pos))

\* find_any((comment(), word()))
CommentOrWord(txt, pos) == OrElse(comment(txt, pos), ParseWord(txt, pos))

RECURSIVE NodesLoop(_, _, _)

\* NodesStep that puts each parsed node in front of the earlier ones
NodesStep_Prepend(txt, acc, r) ==
    IF ~r.ok THEN r
    ELSE NodesLoop(txt, SkipSpace(txt, r.pos), <<r.val>> \o acc)

\* trim(find_any(..)) gave r: stop at an error, else collect the node, skip
\* the whitespace after it and go on
NodesStep(txt, acc, r) ==
    IF ~r.ok THEN r
    ELSE NodesLoop(txt, SkipSpace(txt, r.pos), Append(acc, r.val))

\* find_until(eoi(), trim(find_any((comment(), word()))))
NodesLoop(txt, pos, acc) ==
    IF Eoi(txt, pos).ok THEN Ok(pos, acc)
    ELSE NodesStep(txt, acc, CommentOrWord(txt, SkipSpace(txt, pos)))

\* the outer trim and map_result(Nodes) applied to the result of find_until
NodesResult(txt, r) == IF r.ok THEN Ok(SkipSpace(txt, r.pos), r.val) ELSE r

\* nodes() (parser.rs 16-22)
ParseNodes(txt) == NodesResult(txt, NodesLoop(txt, SkipSpace(txt, 0), <<>>))


(***************************************************************************)
(* Inputs the operations are run on.                                       *)
(***************************************************************************)
SeqsUpTo(S, n) == UNION {[1..k -> S] : k \in 0..n}

\* bits 12..31 of the integers handed to Word::from(u32)
HighParts == {0, 1, 524288, 699050, 1048575}

\* the u32 whose bits 12..31 are hi and whose bits 0..11 are lo
U32Join(hi, lo) == BitOr(Shl(U32FromNat(hi), WORD_BITS), U32FromNat(lo))

\* a word built the way the parser and its tests build one
MakeWord(i, a, c) ==
    Word(InstFromKind(InstKind[i + 1]),
         AddrFromU32(Shl(U32FromNat(a), ADDR_POS)),
         CtrlFromKind(CtrlKind[c + 1]))

AllWords == {MakeWord(i, a, c) : i \in 0..15, a \in 0..63, c \in 0..3}

SampleWords ==
    {MakeWord(0, 0, 0), MakeWord(15, 63, 3), MakeWord(4, 63, 0),
     MakeWord(9, 40, 0), MakeWord(10, 21, 2)}

SampleComments == {NodeComment(<<>>), NodeComment(<<" ", "h", "i">>)}

SampleNodes == {NodeFromWord(w) : w \in SampleWords} \cup SampleComments

NodeInputs ==
    SeqsUpTo(SampleNodes, MaxNodes) \cup {<<NodeFromWord(w)>> : w \in AllWords}

SampleBytes == {0, 1, 60, 128, 165, 255}

ByteInputs ==
    SeqsUpTo(SampleBytes, MaxBytes) \cup {<<b>> : b \in 0..255}

\* every assignment of upper or lower case to the letters of a name
RECURSIVE CaseSpellings(_)
CaseSpellings(name) ==
    IF name = <<>> THEN {<<>>}
    ELSE {<<c>> \o rest : c \in {Head(name), UpperChar(Head(name))},
                          rest \in CaseSpellings(Tail(name))}

InstInputs ==
    UNION {CaseSpellings(INST_TABLE[i].name) : i \in 1..Len(INST_TABLE)}
        \cup {<<"F","O","O">>, <<>>}

\* the comment lines of parse_comment and others, without their terminator
CommentBodies ==
    { <<";","O","N","E"," ","0","o","7","7"," ","0","0">>,
      <<";"," "," "," ">>,
      <<";"," ","f","o","o"," ","b","a","r"," "," ">>,
      <<";","\t","x"," ","\t">>,
      <<";"," ","a","\r","b">>,
      <<";",";"," ","a"," ",";">>,
      <<";","a","\f">>,
      <<";"," ","a"," ","\f"," ">>,
      <<";","\f">>,
      <<";","U+00A0","a","\f","b","","U+0085","U+1680">>,
      <<";","c","a","f","U+00E9">>,
      <<";","a","U+20AC"," ","U+2003","U+3000">>,
      <<";","U+2028","a","U+200B","U+2029">> }

\* what ends a comment line, and what may follow it
CommentEnds ==
    { <<>>, <<"\n">>, <<"\r","\n">>, <<"\r">>,
      <<"\n",";"," ","b">>, <<"\r","\n","O","N","E">> }

\* texts handed to comment(): comment lines, and texts that do not start one
CommentInputs ==
    {b \o e : b \in CommentBodies, e \in CommentEnds}
        \cup { <<"O","N","E"," ","0","o","7","7"," ","0","b","0">>,
               <<" ",";"," ","a">>, <<>> }

\* what follows the mnemonic on the lines handed to word(): the rest of the
\* line of parse_word, other well-formed rests, and rests that are not
WordTails ==
    { <<" ","0","o","7","7"," ","0","h","0">>,
      <<" ","0","o","1"," ","0","b","0","\n">>,
      <<"\t"," ","0","h","2","a"," "," ","0","b","1","1","\r","\n">>,
      <<"0","o","1"," ","0","b","0">>,
      <<" ","c"," ","0","o","1"," ","0","b","0">>,
      <<>> }

WordLineInputs == {m \o t : m \in InstInputs, t \in WordTails}

\* the numeral of value v in a radix, written with a fixed number of digits
Digits(v, radix, width) ==
    [k \in 1..width |-> HexDigits[((v \div (radix ^ (width - k))) % radix) + 1]]

NumeralsOf(v, bwidth, owidth, hwidth) ==
    { <<"0","b">> \o Digits(v, 2, bwidth),
      <<"0","o">> \o Digits(v, 8, owidth),
      <<"0","h">> \o Digits(v, 16, hwidth) }

OddTokens ==
    { <<"0","o","1","0","0">>, <<"0","b","1","1","1">>, <<"0","h","3","F">>,
      <<"0","h","f","f">>, <<"9","9">>, <<"0","o","8","8">>, <<"0","b">>,
      <<"1","2","3">>, <<>> }

\* n copies of a char
Repeat(c, n) == [k \in 1..n |-> c]

\* digit runs at, just under and over the longest run each lexer takes, and
\* tokens whose digits are not all of the base their prefix names
LongTokens ==
    { <<"0","b">> \o Repeat("1", n) : n \in {30, 31, 32, 33} }
    \cup { <<"0","b","1">> \o Repeat("0", 30) }
    \cup { <<"0","o">> \o Repeat("7", n) : n \in {9, 10, 11} }
    \cup { <<"0","h">> \o Repeat("f", n) : n \in {6, 7, 8} }
    \cup { <<"0","h","F","f","0","9","a","A","1">>,
           <<"0","b","1","0","2">>, <<"0","o","1","7","8">>,
           <<"0","h","1","f","g">>, <<"0","b","7">>, <<"0","o","f">>,
           <<"0","o">>, <<"0","h">>, <<"0","x","1","f">>, <<"0","B","1">>,
           <<"b","1">>, <<"0">> }

\* values past the 6 bits of an address and past the 2 bits of a control
WideValues == {4, 5, 6, 7, 11, 64, 65, 100, 127, 128, 191, 255}

\* numerals of the values too wide for the field they are written in
WideTokens == UNION {NumeralsOf(v, 8, 3, 2) : v \in WideValues}

AddrInputs ==
    UNION {NumeralsOf(v, 6, 2, 2) : v \in 0..63}
        \cup OddTokens \cup WideTokens \cup LongTokens

CtrlInputs ==
    UNION {NumeralsOf(v, 2, 1, 1) : v \in 0..3}
        \cup OddTokens \cup WideTokens \cup LongTokens

\* tokens handed to find_any((bin(), oct(), hex()))
NumeralInputs == AddrInputs \cup CtrlInputs \cup LongTokens

\* lines of assembly text, without their terminator
SampleLines ==
    << <<"O","N","E"," ","0","o","7","7"," ","0","b","0">>,
       <<"S","T","O","C"," ","0","o","5","0"," ","0","b","0">>,
       <<"N","O","P","0"," ","0","o","7","7"," ","0","b","1">>,
       <<" "," "," "," ","s","t","o"," ","0","h","2","a"," ","0","b","1","1">>,
       <<";"," ","h","e","l","l","o"," ">>,
       <<>>,
       <<"F","O","O"," ","0","o","1"," ","0","b","0">>,
       <<"O","N","E"," ","9","9"," ","0","b","0">>,
       <<"O","N","E"," ","0","o","8","8"," ","0","b","0">>,
       <<"O","N","E"," ","0","o"," ","0","b","0">>,
       <<"O","N","E"," ","0","o","7","8"," ","0","b","0">>,
       <<"O","N","E"," ","0","o","1"," ","9","9">>,
       <<"O","N","E"," ","0","o","1"," ","0","b","2","2">>,
       <<"O","N","E"," ","0","o","1"," ","0","b">>,
       <<"O","N","E"," ","0","o","1"," ","0","b","1","2">>,
       <<";"," "," "," ">>,
       <<";"," ","f","o","o"," ","b","a","r"," "," ">>,
       <<";","O","N","E"," ","0","o","7","7"," ","0","0">>,
       <<";","\t","x",";"," ","\r">> >>

\* the sample lines that programs of several lines are made of
MixedLines == {l \in 1..Len(SampleLines) : l <= 7}

\* the sample lines with a malformed address or control numeral
NumeralLines == {l \in 1..Len(SampleLines) : l > 7 /\ l <= 15}

\* the sample lines that are comment lines
CommentLines == {5} \cup {l \in 1..Len(SampleLines) : l > 15}

\* programs with several blank lines in a row between two content lines
BlankRuns == { <<1, 6, 6, 2>>, <<5, 6, 6, 6, 1>>, <<4, 6, 6, 3, 6, 6, 5>> }

\* what surrounds the lines of a program: text before, text after
Frames ==
    << [lead |-> <<>>, trail |-> <<"\n">>],
       [lead |-> <<>>, trail |-> <<>>],
       [lead |-> <<"\n"," "," "," "," ">>, trail |-> <<"\n","\n"," "," ">>] >>

\* the lines joined by "\n"
RECURSIVE JoinLines(_)
JoinLines(ls) ==
    IF ls = <<>> THEN <<>>
    ELSE IF Len(ls) = 1 THEN SampleLines[ls[1]]
    ELSE SampleLines[ls[1]] \o <<"\n">> \o JoinLines(Tail(ls))

\* the text of the program made of lines ls (indices of SampleLines) in frame f
ProgramText(f, ls) ==
    Frames[f].lead \o JoinLines(ls) \o (IF ls = <<>> THEN <<>> ELSE Frames[f].trail)

ProgramInputs ==
    {[frame |-> f, lines |-> ls] :
        f \in 1..Len(Frames), ls \in SeqsUpTo(MixedLines, MaxLines)}
    \cup {[frame |-> f, lines |-> ls] :
            f \in 1..Len(Frames),
            ls \in {<<l>> : l \in NumeralLines}
                   \cup {<<1, l>> : l \in NumeralLines}
                   \cup {<<5, l, 2>> : l \in NumeralLines}}
    \cup {[frame |-> f, lines |-> ls] :
            f \in 1..Len(Frames), ls \in SeqsUpTo(CommentLines, MaxLines)}
    \cup {[frame |-> f, lines |-> ls] : f \in 1..Len(Frames), ls \in BlankRuns}

(***************************************************************************)
(* State machine of one run of the toolkit.  The toolkit keeps no state    *)
(* between calls: a run starts from the initial state, each action is one  *)
(* call, and the variables hold its input and its result.                  *)
(***************************************************************************)
None == <<>>

Init ==
    /\ op = "init"
    /\ arg = None
    /\ bits = None
    /\ word = None
    /\ asm = None
    /\ parsed = None
    /\ nodes = None
    /\ bytes = None
    /\ listed = None

WordIdle == bits' = None /\ word' = None
ParserIdle == asm' = None /\ parsed' = None
CodecIdle == nodes' = None /\ bytes' = None /\ listed' = None

\* Word::from(b) for a 32-bit integer b
DecodeWord ==
    /\ op = "init"
    /\ \E hi \in HighParts, lo \in 0..4095 :
        /\ op' = "decode"
        /\ arg' = <<hi, lo>>
        /\ bits' = U32Join(hi, lo)
        /\ word' = WordFromU32(bits')
        /\ ParserIdle /\ CodecIdle

\* u32::from(w) for a word w built from its three field codes
EncodeWord ==
    /\ op = "init"
    /\ \E i \in 0..15, a \in 0..63, c \in 0..3 :
        /\ op' = "encode"
        /\ arg' = <<i, a, c>>
        /\ word' = MakeWord(i, a, c)
        /\ bits' = U32FromWord(word')
        /\ ParserIdle /\ CodecIdle

\* serialize(output, Nodes(N))
Serialize ==
    /\ op = "init"
    /\ \E N \in NodeInputs :
        /\ op' = "serialize"
        /\ arg' = N
        /\ nodes' = N
        /\ bytes' = serialize(N)
        /\ listed' = None
        /\ WordIdle /\ ParserIdle

\* deserialize(input) on a byte stream B
Deserialize ==
    /\ op = "init"
    /\ \E B \in ByteInputs :
        /\ op' = "deserialize"
        /\ arg' = B
        /\ nodes' = None
        /\ bytes' = B
        /\ listed' = deserialize(B)
        /\ WordIdle /\ ParserIdle

\* read_file on the file serialize has just written (uecli asm --list)
ReadWritten ==
    /\ op \in {"serialize", "asm"}
    /\ op' = IF op = "asm" THEN "asm listed" ELSE "listed"
    /\ listed' = deserialize(bytes)
    /\ UNCHANGED <<arg, bits, word, asm, parsed, nodes, bytes>>

\* inst().parse(s)
ParseInst ==
    /\ op = "init"
    /\ \E s \in InstInputs :
        /\ op' = "inst"
        /\ arg' = s
        /\ asm' = s
        /\ parsed' = inst(s, 0)
        /\ WordIdle /\ CodecIdle

\* addr().parse(s)
ParseAddr ==
    /\ op = "init"
    /\ \E s \in AddrInputs :
        /\ op' = "addr"
        /\ arg' = s
        /\ asm' = s
        /\ parsed' = addr(s, 0)
        /\ WordIdle /\ CodecIdle

\* ctrl().parse(s)
ParseCtrl ==
    /\ op = "init"
    /\ \E s \in CtrlInputs :
        /\ op' = "ctrl"
        /\ arg' = s
        /\ asm' = s
        /\ parsed' = ctrl(s, 0)
        /\ WordIdle /\ CodecIdle

\* find_any((bin(), oct(), hex())).parse(s), the numeral of addr() and ctrl()
ParseNumeral ==
    /\ op = "init"
    /\ \E s \in NumeralInputs :
        /\ op' = "numeral"
        /\ arg' = s
        /\ asm' = s
        /\ parsed' = AnyNumeral(s, 0)
        /\ WordIdle /\ CodecIdle

\* run_asm: parse the assembly text and, when it parses, write the binary
\* comment().parse(s)
ParseComment ==
    /\ op = "init"
    /\ \E s \in CommentInputs :
        /\ op' = "comment"
        /\ arg' = s
        /\ asm' = s
        /\ parsed' = comment(s, 0)
        /\ WordIdle /\ CodecIdle

\* word().parse(s)
ParseWordLine ==
    /\ op = "init"
    /\ \E s \in WordLineInputs :
        /\ op' = "word"
        /\ arg' = s
        /\ asm' = s
        /\ parsed' = ParseWord(s, 0)
        /\ WordIdle /\ CodecIdle

\* the arguments of one run of asm: the frame at index 0, the lines after it
ProgramArg(p) == [k \in 0..Len(p.lines) |-> IF k = 0 THEN p.frame ELSE p.lines[k]]

\* the sampled program that the arguments of a run of asm stand for
Program(a) ==
    [frame |-> a[0], lines |-> [k \in 1..(Cardinality(DOMAIN a) - 1) |-> a[k]]]

RunAsm ==
    /\ op = "init"
    /\ \E p \in ProgramInputs :
      \E r \in {ParseNodes(ProgramText(p.frame, p.lines))} :
        /\ arg' = ProgramArg(p)
        /\ asm' = ProgramText(p.frame, p.lines)
        /\ parsed' = r
        /\ op' = IF r.ok THEN "asm" ELSE "asm failed"
        /\ nodes' = IF r.ok THEN r.val ELSE None
        /\ bytes' = IF r.ok THEN serialize(r.val) ELSE None
        /\ listed' = None
        /\ WordIdle

NextWord == DecodeWord \/ EncodeWord

NextCodec == Serialize \/ Deserialize \/ ReadWritten

NextAsm ==
    RunAsm \/ ParseInst \/ ParseAddr \/ ParseCtrl \/ ParseNumeral \/ ParseWordLine
        \/ ParseComment \/ ReadWritten

Next == NextWord \/ NextCodec \/ NextAsm

Spec == Init /\ [][Next]_vars

SpecWord == Init /\ [][NextWord]_vars

SpecCodec == Init /\ [][NextCodec]_vars

SpecAsm == Init /\ [][NextAsm]_vars

(***************************************************************************)
(* Properties.  The definitions below read the byte stream and the fields  *)
(* on their own terms, so that the codec and the parser are compared with  *)
(* what the specification says of them.                                    *)
(***************************************************************************)
IsWordNode(n) == n.tag = "Word"

OnlyWords(ns) == \A k \in 1..Len(ns) : IsWordNode(ns[k])

WordNodes(ns) == SelectSeq(ns, IsWordNode)

\* bit j of a byte stream, counting from 0 at the top bit of the first byte
StreamBit(bs, j) == (bs[(j \div 8) + 1] \div (2 ^ (7 - (j % 8)))) % 2

\* bit r of a field of the given width, counting from 0 at its top bit
FieldBit(v, width, r) == (v \div (2 ^ (width - 1 - r))) % 2

\* bit r (0..11) of the 12-bit group of a word node
WordBit(n, r) ==
    IF r < 4 THEN FieldBit(InstVal(n.inst), 4, r)
    ELSE IF r < 10 THEN FieldBit(AddrVal(n.addr), 6, r - 4)
    ELSE FieldBit(CtrlVal(n.ctrl), 2, r - 10)

RECURSIVE GroupSum(_, _, _)
GroupSum(bs, k, r) ==
    IF r < 0 THEN 0
    ELSE StreamBit(bs, 12 * k + r) * (2 ^ (11 - r)) + GroupSum(bs, k, r - 1)

\* the value of bits 12k .. 12k+11 of a byte stream read MSB first
GroupValue(bs, k) == GroupSum(bs, k, 11)

\* the classification the address table of the specification gives a value
ClassOf(v) ==
    IF v <= 39 THEN "General"
    ELSE IF v <= 47 THEN "ParallelRead"
    ELSE IF v <= 55 THEN "ExternalInput"
    ELSE IF v = 56 THEN "QRR"
    ELSE IF v = 57 THEN "RR"
    ELSE IF v <= 59 THEN "HighInput"
    ELSE "LowInput"

\* C1: deserializing the bytes serialize wrote for a sequence of Words (of
\* any length, empty and odd lengths included) yields exactly that sequence.
Thm_C1_StreamRoundTrip ==
    (op = "listed" /\ OnlyWords(nodes)) =>
        /\ listed.ok
        /\ listed.nodes = nodes

Wit_C1_OddLength ==
    /\ op = "listed"
    /\ OnlyWords(nodes)
    /\ Len(nodes) = 3
    /\ Len(bytes) = 5
    /\ listed.nodes = nodes

\* C2: for a Word built from codes i, a, c the encoding is i << 8 | a << 2 | c,
\* has no bit set at position 12 or above, and decodes back to the same Word
\* field by field.
Thm_C2_WordRoundTrip ==
    op = "encode" =>
        /\ bits[31] = 0
        /\ U32ToNat(bits) = arg[1] * 256 + arg[2] * 4 + arg[3]
        /\ U32ToNat(bits) < 4096
        /\ \A k \in 12..31 : bits[k] = 0
        /\ InstVal(word.inst) = arg[1]
        /\ AddrVal(word.addr) = arg[2]
        /\ CtrlVal(word.ctrl) = arg[3]
        /\ WordFromU32(bits) = word
        /\ WordFromU32(bits).inst = word.inst
        /\ WordFromU32(bits).addr = word.addr
        /\ WordFromU32(bits).ctrl = word.ctrl

Wit_C2_AllOnes ==
    /\ op = "encode"
    /\ arg = <<15, 63, 3>>
    /\ U32ToNat(bits) = 4095
    /\ WordFromU32(bits) = word

\* the low 12 bits of a u32: b mod 4096
Low12(b) == [i \in 0..31 |-> IF i < 12 THEN b[i] ELSE 0]

\* C3: decoding any 32-bit integer never reaches the unreachable branch, gives
\* the decoding of b mod 4096, and encoding the result gives b mod 4096.
Thm_C3_DecodeTotal ==
    op = "decode" =>
        /\ word # Panic
        /\ InstFromU32(bits) # Panic
        /\ CtrlFromU32(bits) # Panic
        /\ word = WordFromU32(Low12(bits))
        /\ U32FromWord(word) = Low12(bits)
        /\ U32ToNat(Low12(bits)) = arg[2]

Wit_C3_HighBitsSet ==
    /\ op = "decode"
    /\ bits[31] = 1
    /\ bits[12] = 1
    /\ arg[2] = 4095
    /\ word # Panic
    /\ U32ToNat(U32FromWord(word)) = 4095

\* the Addr values the last operation produced
StateAddrs ==
    (IF op \in {"decode", "encode"} THEN {word.addr} ELSE {})
        \cup (IF op = "addr" /\ parsed.ok THEN {parsed.val} ELSE {})
        \cup {nodes[k].addr : k \in {j \in 1..Len(nodes) : IsWordNode(nodes[j])}}
        \cup (IF listed = None THEN {}
              ELSE {listed.nodes[k].addr : k \in 1..Len(listed.nodes)})

\* C4: every Addr an operation produces has a value in 0..63 and the
\* classification the table gives that value; the seven ranges are pairwise
\* disjoint and cover 0..63, so the fallback is never taken.
Thm_C4_AddrClassified ==
    /\ \A a \in StateAddrs :
        /\ a.val \in 0..63
        /\ a.kind = ClassOf(a.val)
        /\ AddrRows(a.val) # {}
    /\ \A v \in 0..63 : Cardinality(AddrRows(v)) = 1

Wit_C4_ParsedBoundary ==
    /\ op = "addr"
    /\ parsed.ok
    /\ parsed.val.val = 55
    /\ parsed.val.kind = "ExternalInput"
    /\ arg = <<"0", "o", "6", "7">>

\* C5: serializing n Words writes each word's 4 instruction bits, 6 address
\* bits and 2 control bits MSB first with no padding between words, fills the
\* final partial byte with zero bits, and writes ceil(12 n / 8) bytes.
Thm_C5_Packing ==
    (op = "serialize" /\ OnlyWords(nodes)) =>
        LET n == Len(nodes)
        IN  /\ Len(bytes) = (12 * n + 7) \div 8
            /\ \A j \in 0..(12 * n - 1) :
                   StreamBit(bytes, j) = WordBit(nodes[(j \div 12) + 1], j % 12)
            /\ \A j \in (12 * n)..(8 * Len(bytes) - 1) : StreamBit(bytes, j) = 0
            /\ \A b \in 1..Len(bytes) : bytes[b] \in 0..255

Wit_C5_ThreeWords ==
    /\ op = "serialize"
    /\ OnlyWords(nodes)
    /\ Len(nodes) = 3
    /\ Len(bytes) = 5
    /\ InstVal(nodes[3].inst) = 15
    /\ bytes[5] = 240

\* C6: serializing a node sequence gives the bytes of serializing its Word
\* nodes alone in the same order; comment nodes write no bits, and a sequence
\* of comments alone serializes to zero bytes.
Thm_C6_CommentsTransparent ==
    op = "serialize" =>
        /\ bytes = serialize(WordNodes(nodes))
        /\ Len(bytes) = (12 * Len(WordNodes(nodes)) + 7) \div 8
        /\ (WordNodes(nodes) = <<>> => bytes = <<>>)

Wit_C6_CommentBetweenWords ==
    /\ op = "serialize"
    /\ Len(nodes) = 3
    /\ IsWordNode(nodes[1])
    /\ ~IsWordNode(nodes[2])
    /\ IsWordNode(nodes[3])
    /\ Len(bytes) = 3

\* C7: deserializing L bytes reports no error and yields floor(8 L / 12)
\* words, the k-th the decoding of bits 12k .. 12k+11 read MSB first; a final
\* group of fewer than 12 bits is discarded.
Thm_C7_DeserializeTotal ==
    op = "deserialize" =>
        /\ listed.ok
        /\ Len(listed.nodes) = (8 * Len(bytes)) \div 12
        /\ \A k \in 1..Len(listed.nodes) :
            /\ IsWordNode(listed.nodes[k])
            /\ listed.nodes[k] =
                   NodeFromWord(WordFromU32(U32FromNat(GroupValue(bytes, k - 1))))
            /\ \A r \in 0..11 :
                   WordBit(listed.nodes[k], r) = StreamBit(bytes, 12 * (k - 1) + r)

Wit_C7_PartialGroupDropped ==
    /\ op = "deserialize"
    /\ bytes = <<165, 255>>
    /\ listed.ok
    /\ Len(listed.nodes) = 1
    /\ InstVal(listed.nodes[1].inst) = 10

\* the lines of SampleLines that are well-formed word or comment lines
ContentLines == {1, 2, 3, 4, 5}

\* the node each well-formed sample line stands for
LineNode(l) ==
    IF l = 1 THEN NodeWord([kind |-> "One"], [kind |-> "LowInput", val |-> 63],
                           [kind |-> "Null"])
    ELSE IF l = 2 THEN NodeWord([kind |-> "StoC"],
                                [kind |-> "ParallelRead", val |-> 40],
                                [kind |-> "Null"])
    ELSE IF l = 3 THEN NodeWord([kind |-> "Nop0"],
                                [kind |-> "LowInput", val |-> 63],
                                [kind |-> "CopyShift"])
    ELSE IF l = 4 THEN NodeWord([kind |-> "Sto"],
                                [kind |-> "ParallelRead", val |-> 42],
                                [kind |-> "StopTape"])
    ELSE NodeComment(<<" ", "h", "e", "l", "l", "o">>)

\* the 12-bit group each sample word line assembles to
LineCode(l) ==
    IF l = 1 THEN 1276 ELSE IF l = 2 THEN 2464 ELSE IF l = 3 THEN 253 ELSE 2219

WordLinesOf(ls) == SelectSeq(ls, LAMBDA l : l \in 1..4)

\* C8: a program of well-formed word and comment lines, possibly indented and
\* surrounded by blank lines, parses to one node per line in source order,
\* and its words are serialized in that order; the three example lines
\* assemble to 5 bytes that decode to the codes of the specification.
Thm_C8_ProgramOrder ==
    (/\ op \in {"asm", "asm failed", "asm listed"}
     /\ \A k \in 1..Len(Program(arg).lines) : Program(arg).lines[k] \in ContentLines) =>
        /\ parsed.ok
        /\ op # "asm failed"
        /\ Len(nodes) = Len(Program(arg).lines)
        /\ \A k \in 1..Len(nodes) : nodes[k] = LineNode(Program(arg).lines[k])
        /\ Len(bytes) = (12 * Len(WordLinesOf(Program(arg).lines)) + 7) \div 8
        /\ \A k \in 1..Len(WordLinesOf(Program(arg).lines)) :
               GroupValue(bytes, k - 1) = LineCode(WordLinesOf(Program(arg).lines)[k])
        /\ (op = "asm listed" /\ Program(arg).lines = <<1, 2, 3>>) =>
               /\ Len(bytes) = 5
               /\ Len(listed.nodes) = 3
               /\ <<InstVal(listed.nodes[1].inst), InstVal(listed.nodes[2].inst),
                    InstVal(listed.nodes[3].inst)>> = <<4, 9, 0>>
               /\ <<AddrVal(listed.nodes[1].addr), AddrVal(listed.nodes[2].addr),
                    AddrVal(listed.nodes[3].addr)>> = <<63, 40, 63>>
               /\ <<CtrlVal(listed.nodes[1].ctrl), CtrlVal(listed.nodes[2].ctrl),
                    CtrlVal(listed.nodes[3].ctrl)>> = <<0, 0, 1>>

Wit_C8_FramedExample ==
    /\ op = "asm listed"
    /\ arg = ProgramArg([frame |-> 3, lines |-> <<1, 2, 3>>])
    /\ bytes = <<79, 201, 160, 15, 208>>
    /\ Len(listed.nodes) = 3

\* the three spellings inst_item tries for the i-th instruction of the list
ThreeSpellings(i) ==
    {InstItems[i].name, to_lowercase(InstItems[i].name),
     to_uppercase(InstItems[i].name)}

\* C9: for each of the 16 instructions the listed spelling, the lowercase and
\* the uppercase spelling are accepted and all yield the instruction whose
\* table name is that mnemonic.
Thm_C9_ThreeSpellings ==
    op = "inst" =>
        \A i \in 1..Len(InstItems) :
            arg \in ThreeSpellings(i) =>
                /\ parsed.ok
                /\ parsed.pos = Len(arg)
                /\ parsed.val = InstFromKind(InstItems[i].kind)
                /\ InstName(parsed.val) = to_lowercase(arg)

Wit_C9_UpperStoC ==
    /\ op = "inst"
    /\ arg = <<"S", "T", "O", "C">>
    /\ parsed.ok
    /\ parsed.val = InstFromKind("StoC")
    /\ parsed.pos = 4

\* the mnemonics some case assignment of which the spelling is
MnemonicsOf(str) ==
    {i \in 1..Len(InstItems) : to_lowercase(InstItems[i].name) = to_lowercase(str)}

\* C10 as stated: every upper-, lower- or mixed-case spelling of a mnemonic is
\* accepted and yields the same instruction as the lowercase spelling.
Orig_C10_AnyCase ==
    (op = "inst" /\ MnemonicsOf(arg) # {}) =>
        /\ parsed.ok
        /\ parsed.val = inst(to_lowercase(arg), 0).val

\* the spellings that are Sto in one of its three spellings followed by text
StoPrefixed(str) ==
    Len(str) > 3 /\ SubSeq(str, 1, 3) \in ThreeSpellings(10)

\* C10 amended: a case assignment of a mnemonic is accepted in full, with the
\* instruction of the lowercase spelling, exactly when it is the listed, the
\* lowercase or the uppercase spelling; any other is rejected with an
\* instruction-expected error at offset 0, or (Stoc, stoC, STOc) matched on
\* its first three letters only, as Sto.
Thm_C10_ThreeSpellingsOnly ==
    op = "inst" =>
        \A i \in MnemonicsOf(arg) :
            IF arg \in ThreeSpellings(i)
            THEN /\ parsed.ok
                 /\ parsed.pos = Len(arg)
                 /\ parsed.val = inst(to_lowercase(arg), 0).val
            ELSE IF StoPrefixed(arg)
            THEN parsed.ok /\ parsed.pos = 3 /\ parsed.val = InstFromKind("Sto")
            ELSE ~parsed.ok /\ parsed.err = "ExpectedInst" /\ parsed.pos = 0

Wit_C10_MixedRejected ==
    /\ op = "inst"
    /\ arg = <<"n", "O", "P", "0">>
    /\ ~parsed.ok
    /\ parsed.err = "ExpectedInst"

\* the three numeral notations: prefix, radix, digit chars, longest digit run
NumeralBases ==
    << [prefix |-> <<"0","b">>, radix |-> 2,  digits |-> {"0","1"},
        longest |-> 31],
       [prefix |-> <<"0","o">>, radix |-> 8,
        digits |-> {"0","1","2","3","4","5","6","7"}, longest |-> 10],
       [prefix |-> <<"0","h">>, radix |-> 16,
        digits |-> {"0","1","2","3","4","5","6","7","8","9",
                    "a","b","c","d","e","f","A","B","C","D","E","F"},
        longest |-> 7] >>

\* the notations whose prefix the token starts with
BasesOf(tok) ==
    {b \in 1..3 : Len(tok) >= 2 /\ SubSeq(tok, 1, 2) = NumeralBases[b].prefix}

\* how many chars after the prefix are digits of notation b, up to its longest run
DigitsTaken(tok, b) ==
    LET runs == {n \in 0..(Len(tok) - 2) :
                    /\ n <= NumeralBases[b].longest
                    /\ \A k \in 1..n : tok[2 + k] \in NumeralBases[b].digits}
    IN  CHOOSE n \in runs : \A m \in runs : m <= n

\* the integer a run of digits denotes in a radix: the sum of digit times place
RECURSIVE PlaceSum(_, _, _)
PlaceSum(digits, radix, k) ==
    IF k = 0 THEN 0
    ELSE DigitValue(digits[k]) * (radix ^ (Len(digits) - k))
         + PlaceSum(digits, radix, k - 1)

Denotes(digits, radix) == PlaceSum(digits, radix, Len(digits))

\* the lexer of notation b applied to a token
LexerOf(b, tok) ==
    IF b = 1 THEN bin(tok, 0) ELSE IF b = 2 THEN oct(tok, 0) ELSE hex(tok, 0)

\* C11: a prefix followed by one or more digits of its base parses to the
\* integer the digits denote, for every run length the lexer takes and with
\* no overflow of u32 and no panic; the prefix alone decides the base, no
\* earlier alternative matching a token of a later base; the same value
\* written in the three bases gives the same address and control value, and
\* 0b111111, 0o77 and 0h3f as an address all give 63.
Thm_C11_NumeralValue ==
    /\ op = "numeral" =>
        /\ ~Panicked(parsed)
        /\ BasesOf(arg) = {} => ~parsed.ok
        /\ \A b \in BasesOf(arg) :
            /\ parsed.ok = LexerOf(b, arg).ok
            /\ parsed.ok => parsed = LexerOf(b, arg)
            /\ \A e \in 1..(b - 1) : ~LexerOf(e, arg).ok
            /\ IF DigitsTaken(arg, b) >= 1
               THEN /\ parsed.ok
                    /\ parsed.pos = 2 + DigitsTaken(arg, b)
                    /\ parsed.val[31] = 0
                    /\ U32ToNat(parsed.val) =
                           Denotes(SubSeq(arg, 3, 2 + DigitsTaken(arg, b)),
                                   NumeralBases[b].radix)
               ELSE ~parsed.ok
    /\ op = "addr" =>
        \A v \in 0..63 :
            arg \in NumeralsOf(v, 6, 2, 2) =>
                parsed.ok /\ parsed.pos = Len(arg) /\ AddrVal(parsed.val) = v
    /\ op = "ctrl" =>
        \A v \in 0..3 :
            arg \in NumeralsOf(v, 2, 1, 1) =>
                parsed.ok /\ parsed.pos = Len(arg) /\ CtrlVal(parsed.val) = v
    /\ NumeralsOf(63, 6, 2, 2) =
           { <<"0","b","1","1","1","1","1","1">>, <<"0","o","7","7">>,
             <<"0","h","3","f">> }

Wit_C11_LongestBinaryRun ==
    /\ op = "numeral"
    /\ arg = <<"0","b">> \o Repeat("1", 33)
    /\ parsed.ok
    /\ parsed.pos = 33
    /\ \A k \in 0..30 : parsed.val[k] = 1
    /\ parsed.val[31] = 0

\* the lines of SampleLines that are blank
BlankLines == {6}

\* a program's run: assembled, rejected, or assembled and listed
AsmRun == op \in {"asm", "asm failed", "asm listed"}

\* some blank line of the program lies between two content lines
BlankBetween(ls) ==
    \E j, k, l \in 1..Len(ls) :
        /\ j < k /\ k < l
        /\ ls[j] \in ContentLines /\ ls[k] \in BlankLines /\ ls[l] \in ContentLines

\* C12: a program with one or more blank lines between two content lines is
\* rejected with a parse failure and yields no node sequence.
Orig_C12_InnerBlankRejected ==
    (AsmRun /\ BlankBetween(Program(arg).lines)) =>
        (~parsed.ok /\ op = "asm failed" /\ nodes = None)

\* nodes() ran on two word lines with two blank lines between them and gave
\* the two words, where C12 requires a parse failure
Wit_C12_BlankBetweenWords ==
    /\ op = "asm"
    /\ arg = ProgramArg([frame |-> 1, lines |-> <<1, 6, 6, 2>>])
    /\ BlankBetween(Program(arg).lines)
    /\ parsed.ok
    /\ nodes = <<LineNode(1), LineNode(2)>>

\* the sample lines that are neither well-formed nor blank
MalformedLines ==
    (1..Len(SampleLines)) \ (ContentLines \cup BlankLines \cup CommentLines)

\* the first malformed line of a program, 0 if it has none
FirstMalformed(ls) ==
    IF \A k \in 1..Len(ls) : ls[k] \notin MalformedLines THEN 0
    ELSE CHOOSE k \in 1..Len(ls) :
            /\ ls[k] \in MalformedLines
            /\ \A j \in 1..(k - 1) : ls[j] \notin MalformedLines

\* the offset in the program text of the first char of its k-th line
LineStart(f, ls, k) ==
    Len(Frames[f].lead)
    + (IF k = 1 THEN 0 ELSE Len(JoinLines(SubSeq(ls, 1, k - 1))) + 1)

\* the lines whose first token is no mnemonic
BadMnemonicLines == {7}

\* the lines whose address token has no recognized prefix (8) or no digit of
\* its base right after the prefix (9, 10)
BadAddrLines == {8, 9, 10}

\* the lines whose control token has no recognized prefix (12) or no digit of
\* its base right after the prefix (13, 14)
BadCtrlLines == {12, 13, 14}

\* the lines whose address (11) or control (15) token has a digit outside its
\* base after one or more digits of the base
LateBadDigitLines == {11, 15}

\* a field token that the claim calls malformed: no recognized prefix, an
\* empty digit run, or a char that is no digit of its base
MalformedToken(tok) ==
    \/ BasesOf(tok) = {}
    \/ \E b \in BasesOf(tok) :
          \/ Len(tok) = 2
          \/ \E k \in 3..Len(tok) : tok[k] \notin NumeralBases[b].digits

\* a field token with no recognized prefix or no digit right after it
NoLeadingDigit(tok) ==
    \/ BasesOf(tok) = {}
    \/ \E b \in BasesOf(tok) : DigitsTaken(tok, b) = 0

\* C13 as stated: a line that starts with no mnemonic fails with an
\* instruction-expected error (at offset 0 when it opens the text); a word
\* line whose address token has no recognized prefix, an empty digit run or
\* a digit outside its base fails with an address-expected error, and with a
\* control-expected error when the token is in the control position; no
\* nodes are returned.
Orig_C13_MalformedNamed ==
    /\ (AsmRun /\ FirstMalformed(Program(arg).lines) # 0) =>
        LET l == Program(arg).lines[FirstMalformed(Program(arg).lines)]
        IN  /\ ~parsed.ok
            /\ nodes = None
            /\ l \in BadMnemonicLines => parsed.err = "ExpectedInst"
            /\ l \in BadAddrLines \cup {11} => parsed.err = "ExpectedAddr"
            /\ l \in BadCtrlLines \cup {15} => parsed.err = "ExpectedCtrl"
    /\ (op = "addr" /\ MalformedToken(arg)) =>
        (~parsed.ok /\ parsed.err = "ExpectedAddr")
    /\ (op = "ctrl" /\ MalformedToken(arg)) =>
        (~parsed.ok /\ parsed.err = "ExpectedCtrl")

\* C13 amended: a program with a malformed line fails and returns no nodes.
\* The failure is instruction-expected, at the offset of the line's first
\* char (0 when the line opens the text), when the line starts with no
\* mnemonic; address-expected (control-expected in the control position)
\* when the token has no recognized prefix or no digit of its base right
\* after the prefix.  A token with one or more digits of its base followed by
\* a digit outside it is accepted up to that digit, and the line fails at the
\* leftover char with neither of these errors.
Thm_C13_MalformedRejected ==
    /\ (AsmRun /\ FirstMalformed(Program(arg).lines) # 0) =>
        LET k == FirstMalformed(Program(arg).lines)
            l == Program(arg).lines[FirstMalformed(Program(arg).lines)]
        IN  /\ ~parsed.ok
            /\ op = "asm failed"
            /\ nodes = None /\ bytes = None
            /\ l \in BadMnemonicLines =>
                  /\ parsed.err = "ExpectedInst"
                  /\ parsed.pos = LineStart(Program(arg).frame, Program(arg).lines, k)
                  /\ (Program(arg).frame \in {1, 2} /\ k = 1) => parsed.pos = 0
            /\ l \in BadAddrLines => parsed.err = "ExpectedAddr"
            /\ l \in BadCtrlLines => parsed.err = "ExpectedCtrl"
            /\ l \in LateBadDigitLines =>
                  /\ parsed.err \notin {"ExpectedInst", "ExpectedAddr", "ExpectedCtrl"}
                  /\ parsed.pos > LineStart(Program(arg).frame, Program(arg).lines, k)
                  /\ asm[parsed.pos + 1] \in {"8", "2"}
    /\ (op = "addr" /\ NoLeadingDigit(arg)) =>
        (~parsed.ok /\ parsed.err = "ExpectedAddr")
    /\ (op = "ctrl" /\ NoLeadingDigit(arg)) =>
        (~parsed.ok /\ parsed.err = "ExpectedCtrl")
    /\ (op \in {"addr", "ctrl"} /\ ~NoLeadingDigit(arg)) => parsed.ok

Wit_C13_BadControlAfterWord ==
    /\ op = "asm failed"
    /\ arg = ProgramArg([frame |-> 1, lines |-> <<1, 13>>])
    /\ ~parsed.ok
    /\ parsed.err = "ExpectedCtrl"
    /\ nodes = None


(***************************************************************************)
(* C14: mnemonics that are prefixes of one another.                        *)
(***************************************************************************)
\* the text of a line before its first whitespace character
MnemonicBefore(str) ==
    SubSeq(str, 1, Min({k \in 1..Len(str) : str[k] \in Whitespace}
                           \cup {Len(str) + 1}) - 1)

\* a line without its leading whitespace
TrimLead(str) == SubSeq(str, SkipSpace(str, 0) + 1, Len(str))

\* the rests of a line that make a word line of an accepted mnemonic
GoodTails ==
    { <<" ","0","o","7","7"," ","0","h","0">>,
      <<" ","0","o","1"," ","0","b","0","\n">>,
      <<"\t"," ","0","h","2","a"," "," ","0","b","1","1","\r","\n">> }

\* the instructions one of whose three accepted spellings is the text
NamedBy(str) ==
    {InstFromKind(InstItems[i].kind) : i \in {j \in 1..Len(InstItems) :
                                                str \in ThreeSpellings(j)}}

\* C14: a word line is accepted only with the instruction whose accepted
\* spelling is the whole text before the first whitespace, and every accepted
\* spelling followed by a well-formed rest is accepted with that instruction:
\* 'stoc' gives StoC, 'sto' gives Sto, and 'stoc' is never taken as Sto with
\* leftover text; the same holds of the word lines of a parsed program.
Thm_C14_NoPrefixConfusion ==
    /\ (op = "word" /\ parsed.ok) =>
            parsed.val.inst \in NamedBy(MnemonicBefore(arg))
    /\ (/\ op = "word"
        /\ NamedBy(MnemonicBefore(arg)) # {}
        /\ SubSeq(arg, Len(MnemonicBefore(arg)) + 1, Len(arg)) \in GoodTails) =>
            /\ parsed.ok
            /\ parsed.pos = Len(arg)
            /\ NamedBy(MnemonicBefore(arg)) = {parsed.val.inst}
    /\ (AsmRun /\ parsed.ok) =>
            /\ Len(WordNodes(nodes)) = Len(WordLinesOf(Program(arg).lines))
            /\ \A k \in 1..Len(WordNodes(nodes)) :
                   NamedBy(MnemonicBefore(TrimLead(
                       SampleLines[WordLinesOf(Program(arg).lines)[k]])))
                     = {WordNodes(nodes)[k].inst}

\* word() ran on 'stoc' followed by a well-formed rest and gave a StoC word
\* that ends at the end of the line
Wit_C14_LowerStocLine ==
    /\ op = "word"
    /\ arg = <<"s","t","o","c"," ","0","o","1"," ","0","b","0","\n">>
    /\ parsed.ok
    /\ parsed.pos = 13
    /\ parsed.val.inst = InstFromKind("StoC")


(***************************************************************************)
(* C15: the text of a comment line.                                        *)
(***************************************************************************)
\* a line terminator ("\n", "\r\n" or the end of the text) starts at index k
TerminatorAt(str, k) ==
    \/ k = Len(str) + 1
    \/ str[k] = "\n"
    \/ (str[k] = "\r" /\ k < Len(str) /\ str[k + 1] = "\n")

\* the index at which the first line of a text that starts with ';' ends
LineEnd(str) == Min({k \in 2..(Len(str) + 1) : TerminatorAt(str, k)})

\* the number of characters of the terminator that starts at index k
TerminatorLen(str, k) ==
    IF k = Len(str) + 1 THEN 0 ELSE IF str[k] = "\n" THEN 1 ELSE 2

\* the index of the last character of a text that is not whitespace, or 0
LastVisible(raw) ==
    CHOOSE k \in {j \in 1..Len(raw) : raw[j] \notin Whitespace} \cup {0} :
        \A j \in (k + 1)..Len(raw) : raw[j] \in Whitespace

\* the Comment node of a text that starts with ';': what follows the ';' on
\* its first line, up to the last character that is not whitespace
CommentOf(str) ==
    NodeComment(SubSeq(str, 2, 1 + LastVisible(SubSeq(str, 2, LineEnd(str) - 1))))

\* C15: comment() on a text that starts with ';' yields one Comment node whose
\* text is what follows the ';' up to, not including, the first line
\* terminator ("\n", "\r\n" or the end of input), without its trailing
\* whitespace and with its leading whitespace kept, and it stops right after
\* that terminator; a text that does not start with ';' yields no comment;
\* a program of k comment lines parses to the k Comment nodes of its lines in
\* order.
Thm_C15_CommentText ==
    /\ (op = "comment" /\ arg # <<>> /\ arg[1] = ";") =>
            /\ parsed.ok
            /\ parsed.val = CommentOf(arg)
            /\ parsed.pos = LineEnd(arg) - 1 + TerminatorLen(arg, LineEnd(arg))
    /\ (op = "comment" /\ (arg = <<>> \/ arg[1] # ";")) =>
            (~parsed.ok /\ parsed.err = "ExpectedComment")
    /\ (AsmRun /\ \A k \in 1..Len(Program(arg).lines) :
                    Program(arg).lines[k] \in CommentLines) =>
            /\ parsed.ok
            /\ op # "asm failed"
            /\ Len(nodes) = Len(Program(arg).lines)
            /\ \A k \in 1..Len(nodes) :
                   nodes[k] = CommentOf(SampleLines[Program(arg).lines[k]])

\* a program of three comment lines ('; foo bar  ', ';   ' and one ending in
\* "\r\n") gave three Comment nodes in that order: ' foo bar', '' and a text
\* that starts with a tab
Wit_C15_ThreeCommentLines ==
    /\ op = "asm"
    /\ arg = ProgramArg([frame |-> 1, lines |-> <<17, 16, 19>>])
    /\ nodes = << NodeComment(<<" ","f","o","o"," ","b","a","r">>),
                  NodeComment(<<>>),
                  NodeComment(<<"\t","x",";">>) >>


(***************************************************************************)
(* C16: numerals too wide for their field.                                 *)
(***************************************************************************)
\* the token starts with a prefix followed by at least one digit of its base
Accepted(tok) == \E b \in BasesOf(tok) : DigitsTaken(tok, b) >= 1

\* the integer denoted by the digits the lexer takes from an accepted token
ValueOf(tok) ==
    Denotes(SubSeq(tok, 3, 2 + DigitsTaken(tok, CHOOSE b \in BasesOf(tok) : TRUE)),
            NumeralBases[CHOOSE b \in BasesOf(tok) : TRUE].radix)

\* C16: every numeral the lexer accepts, of value n, is accepted as an
\* address and as a control value whatever n is: addr() yields the Addr of
\* value n mod 64 with the class of that value, ctrl() the Ctrl of code
\* n mod 4; '0o100' as an address is address 0, general, and '0b111' as a
\* control value is stop-tape.
Thm_C16_FieldWrapped ==
    /\ (op = "addr" /\ Accepted(arg)) =>
            /\ parsed.ok
            /\ parsed.val.val = ValueOf(arg) % 64
            /\ parsed.val.kind = ClassOf(ValueOf(arg) % 64)
    /\ (op = "ctrl" /\ Accepted(arg)) =>
            /\ parsed.ok
            /\ CtrlVal(parsed.val) = ValueOf(arg) % 4
            /\ parsed.val = CtrlFromKind(CtrlKind[(ValueOf(arg) % 4) + 1])
    /\ (op = "addr" /\ arg = <<"0","o","1","0","0">>) =>
            parsed.val = [kind |-> "General", val |-> 0]
    /\ (op = "ctrl" /\ arg = <<"0","b","1","1","1">>) =>
            parsed.val = CtrlFromKind("StopTape")

\* addr() ran on '0hff', a numeral of value 255, and gave address 63 in the
\* low input class
Wit_C16_AddrWrapped ==
    /\ op = "addr"
    /\ arg = <<"0","h","f","f">>
    /\ parsed.ok
    /\ parsed.pos = 4
    /\ ValueOf(arg) = 255
    /\ parsed.val = [kind |-> "LowInput", val |-> 63]

====
